---- MODULE Spec2Model ----
(***************************************************************************)
(* derive-environment: binding of configuration records to environment     *)
(* variables.                                                              *)
(*                                                                         *)
(* Two derives live in the repository.  `Environment` (src/src/lib.rs)     *)
(* generates load_environment_with_prefix, a sequence of six blocks, one   *)
(* per field kind.  `FromEnv` (src/derive-environment-macros/src/lib.rs)   *)
(* generates with_env, which delegates every field to the FromEnv          *)
(* implementation of the field's type (src/src/encoding.rs is one).        *)
(*                                                                         *)
(* The derives are generic over the record they are applied to; the model  *)
(* interprets the generated code over the field descriptors of a fixed     *)
(* schema that has one field of every kind.                                *)
(***************************************************************************)
EXTENDS Integers, Sequences, FiniteSets, TLC

VARIABLES
    env,          \* the process environment: name -> raw value
    self,         \* the record being bound (a Struct)
    prefix,       \* the prefix of the call in flight (or of the last call)
    pc,           \* position inside load_environment_with_prefix
    found_match,  \* the local `found_match` of the call in flight
    log,          \* names passed to std::env::var by the current call, in order
    result,       \* outcome of the last finished call
    before,       \* the record as it was when the current call started
    round,        \* "first" | "second" | "over": which call of the run
    first,        \* the first finished call: record before and after, outcome
    enc,          \* a record deriving FromEnv (its fields are encodings)
    enc_prefix,   \* the prefix with_env was called with
    enc_log,      \* names passed to std::env::var by with_env
    enc_result    \* outcome of the last with_env call

vars == <<env, self, prefix, pc, found_match, log, result, before, round,
          first, enc, enc_prefix, enc_log, enc_result>>

----------------------------------------------------------------------------
(* Bounds of the exploration *)

\* highest sequence index that has variables in the explored environments
MaxIndex == 2

\* number of variables set in an explored environment
MaxVars == 2

----------------------------------------------------------------------------
(* Options and results *)

None == <<>>
Some(v) == <<v>>

\* Result<T, E>
Ok(v) == [ok |-> TRUE, value |-> v, error |-> ""]
Err(e) == [ok |-> FALSE, value |-> 0, error |-> e]

----------------------------------------------------------------------------
(* The schema: the records the derives are applied to *)

\* One EnvFieldArgs per field: identifier, type, and the #[env(..)] flags.
\* A type is its first path segment (`head`) and its first argument.
Field(ident, head, arg, ignore, nested, extendable) ==
    [ident |-> ident, head |-> head, arg |-> arg,
     ignore |-> ignore, nested |-> nested, extendable |-> extendable]

SubStructFields ==
    << Field("port", "u16", "", FALSE, FALSE, FALSE),
       Field("host", "u16", "", FALSE, FALSE, FALSE) >>

StructFields ==
    << Field("port", "u16", "", FALSE, FALSE, FALSE),
       Field("ignored", "UnparsableStruct", "", TRUE, FALSE, FALSE),
       Field("opt", "Option", "u16", FALSE, FALSE, FALSE),
       Field("sub", "SubStruct", "", FALSE, TRUE, FALSE),
       Field("opt_sub", "Option", "SubStruct", FALSE, TRUE, FALSE),
       Field("array", "Vec", "u8", FALSE, FALSE, TRUE),
       Field("sub_structs", "Vec", "SubStruct", FALSE, TRUE, TRUE) >>

EncStructFields ==
    << Field("encoding", "Encoding", "", FALSE, FALSE, FALSE),
       Field("ignored", "UnparsableStruct", "", TRUE, FALSE, FALSE) >>

FieldsOf(ty) ==
    CASE ty = "Struct" -> StructFields
      [] ty = "SubStruct" -> SubStructFields
      [] ty = "EncStruct" -> EncStructFields

\* Default::default() of the derived records
DefaultOf(ty) ==
    CASE ty = "SubStruct" -> [port |-> 0, host |-> 0]
      [] ty = "Struct" ->
            [port |-> 0, ignored |-> "UnparsableStruct", opt |-> None,
             sub |-> [port |-> 0, host |-> 0], opt_sub |-> None,
             array |-> <<>>, sub_structs |-> <<>>]

\* the identifier in Case::UpperSnake
to_variables(f) ==
    CASE f.ident = "port" -> "PORT"
      [] f.ident = "host" -> "HOST"
      [] f.ident = "opt" -> "OPT"
      [] f.ident = "sub" -> "SUB"
      [] f.ident = "opt_sub" -> "OPT_SUB"
      [] f.ident = "array" -> "ARRAY"
      [] f.ident = "sub_structs" -> "SUB_STRUCTS"
      [] f.ident = "ignored" -> "IGNORED"
      [] f.ident = "encoding" -> "ENCODING"

to_fields(f) == f.ident

is_option(f) == f.head = "Option"

----------------------------------------------------------------------------
(* The environment and the parsers *)

NotUnicode == [unicode |-> FALSE, chars |-> <<>>]
Text(chars) == [unicode |-> TRUE, chars |-> chars]

\* std::env::var: the text of the variable, or why there is none
EnvVar(name) ==
    IF name \notin DOMAIN env THEN Err("NotPresent")
    ELSE IF ~env[name].unicode THEN Err("NotUnicode")
    ELSE Ok(env[name].chars)

Digits == <<"0", "1", "2", "3", "4", "5", "6", "7", "8", "9">>

IsDigit(c) == \E d \in 1..10 : Digits[d] = c

DigitValue(c) == (CHOOSE d \in 1..10 : Digits[d] = c) - 1

\* `{i}` of format!: the decimal digits of i
RECURSIVE FormatIndex(_)
FormatIndex(i) ==
    IF i < 10 THEN Digits[i + 1]
    ELSE FormatIndex(i \div 10) \o Digits[(i % 10) + 1]

\* the largest value of an unsigned integer type
MaxOf(ty) == IF ty = "u8" THEN 255 ELSE 65535

\* digits left to right, as <unsigned>::from_str does
RECURSIVE ParseDigits(_, _, _)
ParseDigits(chars, acc, max) ==
    IF chars = <<>> THEN Ok(acc)
    ELSE IF ~IsDigit(Head(chars)) THEN Err("invalid digit found in string")
    ELSE IF acc * 10 + DigitValue(Head(chars)) > max
         THEN Err("number too large to fit in target type")
    ELSE ParseDigits(Tail(chars), acc * 10 + DigitValue(Head(chars)), max)

\* variable.parse() for an unsigned integer field of type ty
Parse(chars, ty) ==
    IF chars = <<>> THEN Err("cannot parse integer from empty string")
    ELSE LET body == IF Head(chars) = "+" THEN Tail(chars) ELSE chars
         IN  IF body = <<>> THEN Err("invalid digit found in string")
             ELSE ParseDigits(body, 0, MaxOf(ty))

----------------------------------------------------------------------------
(* The code generated by #[derive(Environment)]                            *)
(*                                                                         *)
(* A binding state is the record being bound together with the locals of   *)
(* the generated function: found_match, the error of an early `return`     *)
(* (None while there is none) and the log of the names looked up.          *)

State(s, found, err, lg) ==
    [self |-> s, found_match |-> found, err |-> err, log |-> lg]

Failed(st) == st.err # None

\* "{name}: {msg}" of the early return
ErrorMessage(name, msg) == name \o ": " \o msg

RECURSIVE load_environment_with_prefix(_, _, _, _)
RECURSIVE ExtendableLoop(_, _, _, _)
RECURSIVE NestedExtendableLoop(_, _, _, _)

\* the filters of convert_fields, one per block
IsParseable(f) == ~(f.ignore \/ f.nested \/ f.extendable \/ is_option(f))
IsOptional(f) == ~(f.ignore \/ f.nested \/ f.extendable) /\ is_option(f)
IsNested(f) == f.nested /\ ~f.extendable /\ ~is_option(f)
IsOptionalNested(f) == f.nested /\ ~f.extendable /\ is_option(f)
IsExtendable(f) == ~f.nested /\ f.extendable
IsNestedExtendable(f) == f.nested /\ f.extendable

\* A variant that takes text that does not parse for a variable not set.
ParseableField_SwallowError(st, f, pfx) ==
    LET name == pfx \o to_variables(f)
        variable == EnvVar(name)
        lg == Append(st.log, name)
        parsed == Parse(variable.value, f.head)
    IN  IF variable.ok /\ parsed.ok
        THEN State([st.self EXCEPT ![to_fields(f)] = parsed.value],
                   TRUE, None, lg)
        ELSE [st EXCEPT !.log = lg]

\* A variant that puts a separator between the prefix and the fragment.
ParseableField_Separator(st, f, pfx) ==
    LET name == pfx \o "_" \o to_variables(f)
        variable == EnvVar(name)
        lg == Append(st.log, name)
        parsed == Parse(variable.value, f.head)
    IN  IF ~variable.ok THEN [st EXCEPT !.log = lg]
        ELSE IF parsed.ok
             THEN State([st.self EXCEPT ![to_fields(f)] = parsed.value],
                        TRUE, None, lg)
             ELSE State(st.self, st.found_match,
                        Some(ErrorMessage(name, parsed.error)), lg)

\* one repetition of the block of env_from_parseable, for field f
ParseableField(st, f, pfx) ==
    LET name == pfx \o to_variables(f)
        variable == EnvVar(name)
        lg == Append(st.log, name)
        parsed == Parse(variable.value, f.head)
    IN  IF ~variable.ok THEN [st EXCEPT !.log = lg]
        ELSE IF parsed.ok
             THEN State([st.self EXCEPT ![to_fields(f)] = parsed.value],
                        TRUE, None, lg)
             ELSE State(st.self, st.found_match,
                        Some(ErrorMessage(name, parsed.error)), lg)

env_from_parseable(st, ty, pfx) ==
    LET fs == SelectSeq(FieldsOf(ty), IsParseable)
        run[i \in 0..Len(fs)] ==
            IF i = 0 THEN st
            ELSE IF Failed(run[i - 1]) THEN run[i - 1]
            ELSE ParseableField(run[i - 1], fs[i], pfx)
    IN  run[Len(fs)]

\* A variant that clears the field when its variable is not set.
OptionalField_ClearOnAbsent(st, f, pfx) ==
    LET name == pfx \o to_variables(f)
        variable == EnvVar(name)
        lg == Append(st.log, name)
        parsed == Parse(variable.value, f.arg)
    IN  IF ~variable.ok
        THEN State([st.self EXCEPT ![to_fields(f)] = None],
                   st.found_match, None, lg)
        ELSE IF parsed.ok
             THEN State([st.self EXCEPT ![to_fields(f)] = Some(parsed.value)],
                        TRUE, None, lg)
             ELSE State(st.self, st.found_match,
                        Some(ErrorMessage(name, parsed.error)), lg)

\* one repetition of the block of env_from_optional, for field f
OptionalField(st, f, pfx) ==
    LET name == pfx \o to_variables(f)
        variable == EnvVar(name)
        lg == Append(st.log, name)
        parsed == Parse(variable.value, f.arg)
    IN  IF ~variable.ok THEN [st EXCEPT !.log = lg]
        ELSE IF parsed.ok
             THEN State([st.self EXCEPT ![to_fields(f)] = Some(parsed.value)],
                        TRUE, None, lg)
             ELSE State(st.self, st.found_match,
                        Some(ErrorMessage(name, parsed.error)), lg)

env_from_optional(st, ty, pfx) ==
    LET fs == SelectSeq(FieldsOf(ty), IsOptional)
        run[i \in 0..Len(fs)] ==
            IF i = 0 THEN st
            ELSE IF Failed(run[i - 1]) THEN run[i - 1]
            ELSE OptionalField(run[i - 1], fs[i], pfx)
    IN  run[Len(fs)]

\* the end of the block of env_from_nested: r1 is what binding under the
\* colon prefix returned, r2 what binding under the underscore prefix did
NestedBound(st, id, r1, r2) ==
    IF Failed(r2)
    THEN State([st.self EXCEPT ![id] = r2.self],
               st.found_match \/ r1.found_match, r2.err, r2.log)
    ELSE State([st.self EXCEPT ![id] = r2.self],
               st.found_match \/ r1.found_match \/ r2.found_match, None, r2.log)

\* A variant that stops at the first notation that matched: the underscore
\* prefix is bound only when the colon prefix found nothing.
NestedUnderscore_ShortCircuit(st, f, pfx, r1) ==
    IF Failed(r1)
    THEN State([st.self EXCEPT ![to_fields(f)] = r1.self],
               st.found_match, r1.err, r1.log)
    ELSE IF r1.found_match
    THEN State([st.self EXCEPT ![to_fields(f)] = r1.self], TRUE, None, r1.log)
    ELSE NestedBound(st, to_fields(f), r1,
             load_environment_with_prefix(
                 f.head, r1.self, pfx \o to_variables(f) \o "__", r1.log))

\* the second statement of the block: `?` on r1 returns its error, else the
\* underscore prefix is bound, whatever r1 found
NestedUnderscore(st, f, pfx, r1) ==
    IF Failed(r1)
    THEN State([st.self EXCEPT ![to_fields(f)] = r1.self],
               st.found_match, r1.err, r1.log)
    ELSE NestedBound(st, to_fields(f), r1,
             load_environment_with_prefix(
                 f.head, r1.self, pfx \o to_variables(f) \o "__", r1.log))

\* one repetition of the block of env_from_nested, for field f
NestedField(st, f, pfx) ==
    NestedUnderscore(st, f, pfx,
        load_environment_with_prefix(
            f.head, st.self[to_fields(f)], pfx \o to_variables(f) \o ":", st.log))

env_from_nested(st, ty, pfx) ==
    LET fs == SelectSeq(FieldsOf(ty), IsNested)
        run[i \in 0..Len(fs)] ==
            IF i = 0 THEN st
            ELSE IF Failed(run[i - 1]) THEN run[i - 1]
            ELSE NestedField(run[i - 1], fs[i], pfx)
    IN  run[Len(fs)]

\* the right operand of `a? || b?`: evaluated only when the left operand r1
\* is Ok(false)
OrUnderscore(ty, underscore_var, r1) ==
    IF Failed(r1) \/ r1.found_match THEN r1
    ELSE load_environment_with_prefix(ty, r1.self, underscore_var, r1.log)

\* `a? || b?` on a record held by an optional field or by a sequence: the
\* underscore prefix is bound only when the colon prefix found nothing
BindEither(ty, inner, colon_var, underscore_var, lg) ==
    OrUnderscore(ty, underscore_var,
        load_environment_with_prefix(ty, inner, colon_var, lg))

\* A variant that tracks presence by what the current pass found: a record
\* the field held is dropped when nothing was found for it.
OptionalNestedBound_Clear(st, id, r) ==
    IF Failed(r)
    THEN State([st.self EXCEPT ![id] = Some(r.self)], st.found_match, r.err, r.log)
    ELSE IF r.found_match
    THEN State([st.self EXCEPT ![id] = Some(r.self)], TRUE, None, r.log)
    ELSE State([st.self EXCEPT ![id] = None], st.found_match, None, r.log)

\* what the block of env_from_optional_nested leaves, r being the outcome
\* of binding the record the field holds (or a default one, if it held none)
OptionalNestedBound(st, id, r) ==
    IF Failed(r)
    THEN State([st.self EXCEPT ![id] = Some(r.self)], st.found_match, r.err, r.log)
    ELSE IF r.found_match
    THEN State([st.self EXCEPT ![id] = Some(r.self)], TRUE, None, r.log)
    ELSE IF st.self[id] # None
    THEN State([st.self EXCEPT ![id] = Some(r.self)], st.found_match, None, r.log)
    ELSE State([st.self EXCEPT ![id] = None], st.found_match, None, r.log)

\* one repetition of the block of env_from_optional_nested, for field f
OptionalNestedField(st, f, pfx) ==
    OptionalNestedBound(st, to_fields(f),
        BindEither(f.arg,
                   IF st.self[to_fields(f)] # None
                   THEN st.self[to_fields(f)][1] ELSE DefaultOf(f.arg),
                   pfx \o to_variables(f) \o ":",
                   pfx \o to_variables(f) \o "__",
                   st.log))

env_from_optional_nested(st, ty, pfx) ==
    LET fs == SelectSeq(FieldsOf(ty), IsOptionalNested)
        run[i \in 0..Len(fs)] ==
            IF i = 0 THEN st
            ELSE IF Failed(run[i - 1]) THEN run[i - 1]
            ELSE OptionalNestedField(run[i - 1], fs[i], pfx)
    IN  run[Len(fs)]

\* A variant that replaces the sequence instead of extending it: the elements
\* the field held are dropped when index 0 is found.
ExtendableLoop_Replace(st, f, pfx, i) ==
    LET colon_var == pfx \o to_variables(f) \o ":" \o FormatIndex(i)
        underscore_var == pfx \o to_variables(f) \o "__" \o FormatIndex(i)
        id == to_fields(f)
        colon == EnvVar(colon_var)
        underscore == EnvVar(underscore_var)
        name == IF colon.ok THEN colon_var ELSE underscore_var
        variable == IF colon.ok THEN colon ELSE underscore
        lg == IF colon.ok THEN Append(st.log, colon_var)
              ELSE st.log \o <<colon_var, underscore_var>>
        parsed == Parse(variable.value, f.arg)
        kept == IF i = 0 THEN <<>> ELSE st.self[id]
    IN  IF ~variable.ok THEN [st EXCEPT !.log = lg]
        ELSE IF parsed.ok
             THEN ExtendableLoop(
                      State([st.self EXCEPT ![id] = Append(kept, parsed.value)],
                            TRUE, None, lg),
                      f, pfx, i + 1)
             ELSE State(st.self, st.found_match,
                        Some(ErrorMessage(name, parsed.error)), lg)

\* `for i in 0..` of env_from_extendable, from index i on
ExtendableLoop(st, f, pfx, i) ==
    LET colon_var == pfx \o to_variables(f) \o ":" \o FormatIndex(i)
        underscore_var == pfx \o to_variables(f) \o "__" \o FormatIndex(i)
        id == to_fields(f)
        colon == EnvVar(colon_var)
        underscore == EnvVar(underscore_var)
        name == IF colon.ok THEN colon_var ELSE underscore_var
        variable == IF colon.ok THEN colon ELSE underscore
        lg == IF colon.ok THEN Append(st.log, colon_var)
              ELSE st.log \o <<colon_var, underscore_var>>
        parsed == Parse(variable.value, f.arg)
    IN  IF ~variable.ok THEN [st EXCEPT !.log = lg]
        ELSE IF parsed.ok
             THEN ExtendableLoop(
                      State([st.self EXCEPT ![id] = Append(@, parsed.value)],
                            TRUE, None, lg),
                      f, pfx, i + 1)
             ELSE State(st.self, st.found_match,
                        Some(ErrorMessage(name, parsed.error)), lg)

env_from_extendable(st, ty, pfx) ==
    LET fs == SelectSeq(FieldsOf(ty), IsExtendable)
        run[i \in 0..Len(fs)] ==
            IF i = 0 THEN st
            ELSE IF Failed(run[i - 1]) THEN run[i - 1]
            ELSE ExtendableLoop(run[i - 1], fs[i], pfx, 0)
    IN  run[Len(fs)]

\* A variant that forgets to pop: the element appended for the index that
\* found nothing stays in the sequence.
NestedExtendableBound_NoPop(st, f, pfx, i, r) ==
    IF Failed(r)
    THEN State([st.self EXCEPT ![to_fields(f)] = Append(@, r.self)],
               st.found_match, r.err, r.log)
    ELSE IF r.found_match
    THEN NestedExtendableLoop(
             State([st.self EXCEPT ![to_fields(f)] = Append(@, r.self)],
                   TRUE, None, r.log),
             f, pfx, i + 1)
    ELSE State([st.self EXCEPT ![to_fields(f)] = Append(@, r.self)],
               st.found_match, None, r.log)

\* the end of one iteration of the loop of env_from_nested_extendable: r is
\* the outcome of binding the default element appended for index i
NestedExtendableBound(st, f, pfx, i, r) ==
    IF Failed(r)
    THEN State([st.self EXCEPT ![to_fields(f)] = Append(@, r.self)],
               st.found_match, r.err, r.log)
    ELSE IF r.found_match
    THEN NestedExtendableLoop(
             State([st.self EXCEPT ![to_fields(f)] = Append(@, r.self)],
                   TRUE, None, r.log),
             f, pfx, i + 1)
    ELSE [st EXCEPT !.log = r.log]

\* `for i in 0..` of env_from_nested_extendable, from index i on: a default
\* element is appended, bound under the colon prefix and, when that found
\* nothing, under the underscore prefix; popped when neither found anything
NestedExtendableLoop(st, f, pfx, i) ==
    NestedExtendableBound(st, f, pfx, i,
        BindEither(f.arg, DefaultOf(f.arg),
                   pfx \o to_variables(f) \o ":" \o FormatIndex(i) \o ":",
                   pfx \o to_variables(f) \o "__" \o FormatIndex(i) \o "__",
                   st.log))

env_from_nested_extendable(st, ty, pfx) ==
    LET fs == SelectSeq(FieldsOf(ty), IsNestedExtendable)
        run[i \in 0..Len(fs)] ==
            IF i = 0 THEN st
            ELSE IF Failed(run[i - 1]) THEN run[i - 1]
            ELSE NestedExtendableLoop(run[i - 1], fs[i], pfx, 0)
    IN  run[Len(fs)]

\* a block is not reached once an earlier one has returned an error
Skip(st) == Failed(st)

ThenOptional(st, ty, pfx) ==
    IF Skip(st) THEN st ELSE env_from_optional(st, ty, pfx)

ThenNested(st, ty, pfx) ==
    IF Skip(st) THEN st ELSE env_from_nested(st, ty, pfx)

ThenOptionalNested(st, ty, pfx) ==
    IF Skip(st) THEN st ELSE env_from_optional_nested(st, ty, pfx)

ThenExtendable(st, ty, pfx) ==
    IF Skip(st) THEN st ELSE env_from_extendable(st, ty, pfx)

ThenNestedExtendable(st, ty, pfx) ==
    IF Skip(st) THEN st ELSE env_from_nested_extendable(st, ty, pfx)

\* the generated function: the six blocks in order, left at the first error
load_environment_with_prefix(ty, s, pfx, lg) ==
    ThenNestedExtendable(
      ThenExtendable(
        ThenOptionalNested(
          ThenNested(
            ThenOptional(
              env_from_parseable(State(s, FALSE, None, lg), ty, pfx),
              ty, pfx),
            ty, pfx),
          ty, pfx),
        ty, pfx),
      ty, pfx)

----------------------------------------------------------------------------
(* The code generated by #[derive(FromEnv)], and FromEnv for an encoding *)

\* Encoding::for_label on the labels that occur in the explored environments
ForLabel(chars) ==
    IF chars \in { <<"u", "t", "f", "-", "8">>, <<"u", "t", "f", "8">> }
    THEN Some("UTF-8")
    ELSE IF chars = <<"l", "a", "t", "i", "n", "1">> THEN Some("windows-1252")
    ELSE None

\* FromEnvError::ParseError(name, message), FromEnvError::NotUnicode(name, raw)
ParseError(name, msg) == [kind |-> "ParseError", name |-> name, msg |-> msg]
NotUnicodeError(name) == [kind |-> "NotUnicode", name |-> name, msg |-> ""]

\* <&'static Encoding as FromEnv>::with_env(cur, s): the new value of the
\* field, whether the variable was found, the error, the lookups so far
EncodingWithEnv(cur, s, lg) ==
    LET var == EnvVar(s)
        label == ForLabel(var.value)
        looked == Append(lg, s)
    IN  IF var.ok
        THEN IF label = None
             THEN State(cur, FALSE,
                        Some(ParseError(s, "Unrecognized encoding")), looked)
             ELSE State(label[1], TRUE, None, looked)
        ELSE IF var.error = "NotPresent" THEN State(cur, FALSE, None, looked)
        ELSE State(cur, FALSE, Some(NotUnicodeError(s)), looked)

\* the statements env_from_parseable of the FromEnv derive emits for field f
WithEnvField(st, f, pfx) ==
    LET name == pfx \o "_" \o to_variables(f)
        id == to_fields(f)
        r == EncodingWithEnv(st.self[id], name, st.log)
    IN  IF Failed(r) THEN State(st.self, st.found_match, r.err, r.log)
        ELSE State([st.self EXCEPT ![id] = r.self],
                   st.found_match \/ r.found_match, None, r.log)

\* FromEnv::with_env of a record deriving FromEnv
with_env(ty, s, pfx) ==
    LET fs == SelectSeq(FieldsOf(ty), LAMBDA f : ~f.ignore)
        run[i \in 0..Len(fs)] ==
            IF i = 0 THEN State(s, FALSE, None, <<>>)
            ELSE IF Failed(run[i - 1]) THEN run[i - 1]
            ELSE WithEnvField(run[i - 1], fs[i], pfx)
    IN  run[Len(fs)]

----------------------------------------------------------------------------
(* The explored inputs *)

\* the prefixes calls are made with
Prefixes == {"P_", "P"}

\* raw values of a variable: two numbers, an encoding label (not a number),
\* and bytes that are not valid text
Values == { Text(<<"7">>), Text(<<"8">>), Text(<<"u", "t", "f", "-", "8">>),
            NotUnicode }

Indices == 0..MaxIndex

LeafNames == { to_variables(SubStructFields[k]) : k \in 1..Len(SubStructFields) }

ScalarNames == { p \o v : p \in Prefixes, v \in {"PORT", "OPT"} }

NestedNames(v) == { "P_" \o v \o sep \o leaf : sep \in {":", "__"}, leaf \in LeafNames }

ExtendableNames ==
    { "P_ARRAY" \o sep \o FormatIndex(i) : sep \in {":", "__"}, i \in Indices }

NestedExtendableNames ==
    { "P_SUB_STRUCTS" \o sep \o FormatIndex(i) \o sep \o leaf :
          sep \in {":", "__"}, i \in Indices, leaf \in LeafNames }

EncodingNames == { p \o "_ENCODING" : p \in Prefixes }

\* variables of every field kind, in both notations
GeneralNames ==
    { "P_PORT", "PPORT", "P_OPT",
      "P_SUB:PORT", "P_SUB__PORT", "P_SUB__HOST",
      "P_OPT_SUB:PORT", "P_OPT_SUB__HOST",
      "P_ARRAY:0", "P_ARRAY__1",
      "P_SUB_STRUCTS:0:PORT", "P_SUB_STRUCTS__1__HOST" }

RECURSIVE SubsetsUpTo(_, _)
SubsetsUpTo(U, n) ==
    IF n = 0 THEN { {} }
    ELSE LET smaller == SubsetsUpTo(U, n - 1)
         IN  smaller \cup { S \cup {x} : S \in smaller, x \in U }

Envs(U, n) == UNION { [D -> Values] : D \in SubsetsUpTo(U, n) }

\* a record that a program filled in before binding
Populated ==
    [port |-> 1, ignored |-> "UnparsableStruct", opt |-> Some(2),
     sub |-> [port |-> 3, host |-> 4], opt_sub |-> Some([port |-> 5, host |-> 6]),
     array |-> <<9>>, sub_structs |-> << [port |-> 1, host |-> 2] >>]

\* every mix of default and filled-in fields
Records ==
    { [id \in DOMAIN Populated |->
          IF id \in F THEN Populated[id] ELSE DefaultOf("Struct")[id]] :
      F \in SUBSET { "port", "opt", "sub", "opt_sub", "array", "sub_structs" } }

NoResult == [kind |-> "none", found |-> FALSE, msg |-> ""]
OkResult(found) == [kind |-> "ok", found |-> found, msg |-> ""]
ErrResult(msg) == [kind |-> "err", found |-> FALSE, msg |-> msg]

\* the outcomes of with_env: its error is a FromEnvError
NoError == [kind |-> "", name |-> "", msg |-> ""]
EncNone == [kind |-> "none", found |-> FALSE, error |-> NoError]
EncOk(found) == [kind |-> "ok", found |-> found, error |-> NoError]
EncErr(e) == [kind |-> "err", found |-> FALSE, error |-> e]

NoFirst ==
    [before |-> DefaultOf("Struct"), self |-> DefaultOf("Struct"),
     result |-> NoResult]

InitOver(E, R) ==
    /\ env \in E
    /\ self \in R
    /\ before = self
    /\ prefix = ""
    /\ pc = "idle"
    /\ found_match = FALSE
    /\ log = <<>>
    /\ result = NoResult
    /\ round = "first"
    /\ first = NoFirst
    /\ enc = [encoding |-> "windows-1252", ignored |-> "UnparsableStruct"]
    /\ enc_prefix = ""
    /\ enc_log = <<>>
    /\ enc_result = EncNone

Init == InitOver(Envs(GeneralNames, MaxVars), {DefaultOf("Struct"), Populated})

\* every mix of filled-in fields, under environments of few variables
InitRecords == InitOver(Envs(GeneralNames, MaxVars - 1), Records)

InitScalar ==
    InitOver(Envs(ScalarNames \cup EncodingNames, MaxVars),
             {DefaultOf("Struct"), Populated})

InitNested ==
    InitOver(Envs(NestedNames("SUB") \cup NestedNames("OPT_SUB"), MaxVars),
             {DefaultOf("Struct"), Populated})

InitExtendable ==
    InitOver(Envs(ExtendableNames, MaxVars),
             {DefaultOf("Struct"), [Populated EXCEPT !.array = <<>>]})

InitNestedExtendable ==
    InitOver(Envs(NestedExtendableNames, MaxVars),
             {DefaultOf("Struct"), [Populated EXCEPT !.sub_structs = <<>>]})

----------------------------------------------------------------------------
(* The calls *)

EncUnchanged == UNCHANGED <<enc, enc_prefix, enc_log, enc_result>>

\* the call ends with outcome r, leaving the record as s
Finish(r, s) ==
    /\ result' = r
    /\ pc' = "idle"
    /\ round' = IF round = "first" THEN "second" ELSE "over"
    /\ first' = IF round = "first"
                THEN [before |-> before, self |-> s, result |-> r]
                ELSE first

\* the block left the binding state st: on to pc next, or out with the error
Advance(st, next) ==
    /\ self' = st.self
    /\ found_match' = st.found_match
    /\ log' = st.log
    /\ IF Failed(st) THEN Finish(ErrResult(st.err[1]), st.self)
       ELSE pc' = next /\ UNCHANGED <<result, round, first>>
    /\ UNCHANGED <<env, prefix, before>>
    /\ EncUnchanged

Here == State(self, found_match, None, log)

\* load_environment_with_prefix(&mut self, p) is entered
Call(p) ==
    /\ pc = "idle"
    /\ round = "first"
    /\ prefix' = p
    /\ pc' = "parseable"
    /\ found_match' = FALSE
    /\ log' = <<>>
    /\ before' = self
    /\ result' = NoResult
    /\ UNCHANGED <<env, self, round, first>>
    /\ EncUnchanged

\* the same call once more: same record, same prefix, same environment
CallAgain ==
    /\ pc = "idle"
    /\ round = "second"
    /\ pc' = "parseable"
    /\ found_match' = FALSE
    /\ log' = <<>>
    /\ before' = self
    /\ result' = NoResult
    /\ UNCHANGED <<env, self, prefix, round, first>>
    /\ EncUnchanged

Parseable ==
    /\ pc = "parseable"
    /\ Advance(env_from_parseable(Here, "Struct", prefix), "optional")

Optional ==
    /\ pc = "optional"
    /\ Advance(env_from_optional(Here, "Struct", prefix), "nested")

Nested ==
    /\ pc = "nested"
    /\ Advance(env_from_nested(Here, "Struct", prefix), "optional_nested")

OptionalNested ==
    /\ pc = "optional_nested"
    /\ Advance(env_from_optional_nested(Here, "Struct", prefix), "extendable")

Extendable ==
    /\ pc = "extendable"
    /\ Advance(env_from_extendable(Here, "Struct", prefix), "nested_extendable")

NestedExtendable ==
    /\ pc = "nested_extendable"
    /\ Advance(env_from_nested_extendable(Here, "Struct", prefix), "return")

\* Ok(found_match)
Return ==
    /\ pc = "return"
    /\ Finish(OkResult(found_match), self)
    /\ UNCHANGED <<env, self, prefix, found_match, log, before>>
    /\ EncUnchanged

\* with_env(&mut enc, p) of the record deriving FromEnv, start to end
WithEnv(p) ==
    /\ pc = "idle"
    /\ round = "first"
    /\ enc_result = EncNone
    /\ enc_prefix' = p
    /\ LET st == with_env("EncStruct", enc, p)
       IN  /\ enc' = st.self
           /\ enc_log' = st.log
           /\ enc_result' = IF Failed(st) THEN EncErr(st.err[1])
                            ELSE EncOk(st.found_match)
    /\ UNCHANGED <<env, self, prefix, pc, found_match, log, result, before,
                   round, first>>

\* the calls of the Environment derive
Next ==
    \/ \E p \in Prefixes : Call(p)
    \/ CallAgain
    \/ Parseable
    \/ Optional
    \/ Nested
    \/ OptionalNested
    \/ Extendable
    \/ NestedExtendable
    \/ Return

\* the calls of both derives
NextBoth ==
    \/ Next
    \/ \E p \in Prefixes : WithEnv(p)

Spec == Init /\ [][Next]_vars

SpecRecords == InitRecords /\ [][Next]_vars

SpecScalar == InitScalar /\ [][NextBoth]_vars

SpecNested == InitNested /\ [][Next]_vars

SpecExtendable == InitExtendable /\ [][Next]_vars

SpecNestedExtendable == InitNestedExtendable /\ [][Next]_vars

----------------------------------------------------------------------------
(* Vocabulary of the properties *)

\* a call of load_environment_with_prefix has returned
Returned == pc = "idle" /\ result.kind # "none"

\* the variable is set to the text of a number
Good(name) ==
    name \in DOMAIN env /\ env[name] \in { Text(<<"7">>), Text(<<"8">>) }

\* the number a Good variable holds
Num(name) == IF env[name] = Text(<<"7">>) THEN 7 ELSE 8

\* the variable is set to text that is no number
BadText(name) ==
    name \in DOMAIN env /\ env[name] = Text(<<"u", "t", "f", "-", "8">>)

\* the variable is set, to bytes that are not valid text
Undecodable(name) == name \in DOMAIN env /\ ~env[name].unicode

\* what an error of load_environment_with_prefix may say after the name
ErrorTexts ==
    { "not valid text", "invalid digit found in string",
      "cannot parse integer from empty string",
      "number too large to fit in target type" }

Leaves == {"port", "host"}

Upper(leaf) == IF leaf = "port" THEN "PORT" ELSE "HOST"

----------------------------------------------------------------------------
(* C1 *)

\* C1: absence is a no-op.  When the environment holds none of the names a
\* call looked up, the call returns Ok(false) and the record, at every depth,
\* is what it was when the call started.
C1_AbsenceIsNoOp ==
    (Returned /\ \A i \in 1..Len(log) : log[i] \notin DOMAIN env)
        => (result = OkResult(FALSE) /\ self = before)

\* a call on a fully filled-in record returned without any of its variables
\* being set, in an environment that sets another variable
C1_Witness ==
    /\ Returned
    /\ \A i \in 1..Len(log) : log[i] \notin DOMAIN env
    /\ DOMAIN env # {}
    /\ before = Populated
    /\ self = Populated
    /\ result = OkResult(FALSE)

----------------------------------------------------------------------------
(* C5 *)

\* the elements a call appended to a sequence that held `old` and holds `new`
Appended(old, new) == SubSeq(new, Len(old) + 1, Len(new))

\* C5 as stated: idempotence.  The same call made twice in succession, the
\* environment unchanged, leaves the record as the first call left it and
\* returns what the first call returned.
C5_Idempotent_Original ==
    (Returned /\ round = "over")
        => (self = first.self /\ result = first.result)

\* C5, amended: the second call returns what the first returned and leaves
\* every field that is not a sequence as the first call left it; each
\* sequence is what the first call left followed, once more, by the elements
\* the first call appended.
C5_IdempotentButSequences ==
    (Returned /\ round = "over")
        => /\ result = first.result
           /\ \A id \in DOMAIN self \ {"array", "sub_structs"} :
                  self[id] = first.self[id]
           /\ \A id \in {"array", "sub_structs"} :
                  self[id] = first.self[id]
                                 \o Appended(first.before[id], first.self[id])

\* two calls returned, the first having appended to both sequences of a
\* filled-in record and bound a scalar
C5_Witness ==
    /\ Returned
    /\ round = "over"
    /\ first.before = Populated
    /\ Len(first.self.array) > Len(first.before.array)
    /\ Len(self.array) > Len(first.self.array)
    /\ self.port # first.before.port

----------------------------------------------------------------------------
(* C6 *)

\* no variable of the optional record, under the prefix of the call
NoOptSubVariable ==
    \A sep \in {":", "__"}, leaf \in Leaves :
        (prefix \o "OPT_SUB" \o sep \o Upper(leaf)) \notin DOMAIN env

\* C6 as stated: an optional field that holds a value when the call starts
\* is absent after a call whose environment has no variable for it; for an
\* optional scalar and for an optional nested record.
C6_OptionalClears_Original ==
    (Returned /\ result.kind = "ok")
        => /\ (before.opt # None /\ (prefix \o "OPT") \notin DOMAIN env)
                  => self.opt = None
           /\ (before.opt_sub # None /\ NoOptSubVariable)
                  => self.opt_sub = None

\* C6, amended: an optional field whose variables are not set is left as it
\* was: present with its old value if it was present, absent if it was
\* absent; for an optional scalar and for an optional nested record.
C6_OptionalKeptOnAbsence ==
    Returned
        => /\ (prefix \o "OPT") \notin DOMAIN env => self.opt = before.opt
           /\ NoOptSubVariable => self.opt_sub = before.opt_sub

\* a call returned Ok(true) on a record whose optionals were present and had
\* no variable set: they still hold their old values
C6_Witness ==
    /\ Returned
    /\ result = OkResult(TRUE)
    /\ (prefix \o "OPT") \notin DOMAIN env
    /\ NoOptSubVariable
    /\ before.opt = Some(2)
    /\ self.opt = Some(2)
    /\ before.opt_sub # None
    /\ self.opt_sub = before.opt_sub

----------------------------------------------------------------------------
(* C2 *)

\* the step of the scalar fields of load_environment_with_prefix: it looks
\* up `name` alone and, when that holds a number, overwrites the field with
\* it, sets found_match and changes no other field
ScalarStep(name) ==
    pc = "parseable"
        => /\ log' = <<name>>
           /\ Good(name)
                  => /\ self' = [self EXCEPT !.port = Num(name)]
                     /\ found_match'

\* with_env of the FromEnv derive: it looks up `name` alone and, when that
\* holds a known label, overwrites the field with the encoding, returns
\* Ok(true) and changes no other field
EncodingStep(name) ==
    (enc_result = EncNone /\ enc_result' # EncNone)
        => /\ enc_log' = <<name>>
           /\ (name \in DOMAIN env /\ env[name] = Text(<<"u", "t", "f", "-", "8">>))
                  => /\ enc' = [enc EXCEPT !.encoding = "UTF-8"]
                     /\ enc_result' = EncOk(TRUE)

\* C2 as stated: a scalar field with fragment V bound with prefix P consults
\* the variable named P followed by V, nothing between them, and no other;
\* when that variable parses the field is overwritten, found is true and no
\* other field changes.  Stated of both derives.
C2_ExactName_Original ==
    [][ /\ ScalarStep(prefix \o "PORT")
        /\ EncodingStep(enc_prefix' \o "ENCODING") ]_vars

\* C2, what the code does: load_environment_with_prefix consults P followed
\* by V as stated, but with_env of the FromEnv derive consults the variable
\* named P, "_", V: it puts an underscore between the prefix and the fragment.
C2_ExactName ==
    [][ /\ ScalarStep(prefix \o "PORT")
        /\ EncodingStep(enc_prefix' \o "_" \o "ENCODING") ]_vars

\* both derives have bound their scalar from a variable that was set: the
\* Environment derive from "P" \o "PORT", the FromEnv derive from
\* "P" \o "_" \o "ENCODING"
C2_Witness ==
    /\ pc = "optional"
    /\ prefix = "P"
    /\ log = <<"PPORT">>
    /\ Good("PPORT")
    /\ self.port = Num("PPORT")
    /\ self.port # before.port
    /\ found_match
    /\ enc_prefix = "P"
    /\ enc_log = <<"P_ENCODING">>
    /\ enc.encoding = "UTF-8"
    /\ enc_result = EncOk(TRUE)

----------------------------------------------------------------------------
(* C3 *)

\* C3 as stated: a variable that was consulted and holds bytes that are not
\* valid text makes the call fail with an error that names the variable; the
\* call never returns Ok as if the variable were not set.
C3_UndecodableFails ==
    /\ Returned
           => \A i \in 1..Len(log) :
                  Undecodable(log[i])
                      => /\ result.kind = "err"
                         /\ result.msg \in
                                { ErrorMessage(log[i], m) : m \in ErrorTexts }
    /\ enc_result # EncNone
           => \A i \in 1..Len(enc_log) :
                  Undecodable(enc_log[i])
                      => enc_result = EncErr(NotUnicodeError(enc_log[i]))

----------------------------------------------------------------------------
(* C4 *)

Seps == {":", "__"}

\* indices a call may reach in the explored environments
Reachable == 0..(MaxIndex + 1)

InLog(name) == \E i \in 1..Len(log) : log[i] = name

NestedName(v, sep, leaf) == prefix \o v \o sep \o Upper(leaf)

ElementName(v, sep, i) == prefix \o v \o sep \o FormatIndex(i)

NestedElementName(v, sep, i, leaf) ==
    prefix \o v \o sep \o FormatIndex(i) \o sep \o Upper(leaf)

\* the field the variable `name` is for holds what it held just before the
\* failing parse
FailingFieldKept(name) ==
    /\ name = prefix \o "PORT" => self.port = before.port
    /\ name = prefix \o "OPT" => self.opt = before.opt
    /\ \A sep \in Seps, leaf \in Leaves :
           name = NestedName("SUB", sep, leaf)
               => self.sub[leaf] =
                      IF sep = "__" /\ Good(NestedName("SUB", ":", leaf))
                      THEN Num(NestedName("SUB", ":", leaf))
                      ELSE before.sub[leaf]
    /\ \A sep \in Seps, leaf \in Leaves :
           name = NestedName("OPT_SUB", sep, leaf)
               => /\ self.opt_sub # None
                  /\ self.opt_sub[1][leaf] =
                         IF before.opt_sub = None
                         THEN DefaultOf("SubStruct")[leaf]
                         ELSE before.opt_sub[1][leaf]
    /\ \A sep \in Seps, i \in Reachable :
           name = ElementName("ARRAY", sep, i)
               => Len(self.array) = Len(before.array) + i
    /\ \A sep \in Seps, i \in Reachable, leaf \in Leaves :
           name = NestedElementName("SUB_STRUCTS", sep, i, leaf)
               => /\ Len(self.sub_structs) = Len(before.sub_structs) + i + 1
                  /\ self.sub_structs[Len(self.sub_structs)][leaf] =
                         DefaultOf("SubStruct")[leaf]

\* the field the variable `name` is for holds the number bound from it (or
\* from the underscore name of the same leaf, bound after it)
BoundValueKept(name) ==
    /\ name = prefix \o "PORT" => self.port = Num(name)
    /\ name = prefix \o "OPT" => self.opt = Some(Num(name))
    /\ \A sep \in Seps, leaf \in Leaves :
           name = NestedName("SUB", sep, leaf)
               => self.sub[leaf] =
                      IF /\ sep = ":"
                         /\ InLog(NestedName("SUB", "__", leaf))
                         /\ Good(NestedName("SUB", "__", leaf))
                      THEN Num(NestedName("SUB", "__", leaf))
                      ELSE Num(name)
    /\ \A sep \in Seps, leaf \in Leaves :
           name = NestedName("OPT_SUB", sep, leaf)
               => /\ self.opt_sub # None
                  /\ self.opt_sub[1][leaf] = Num(name)
    /\ \A sep \in Seps, i \in Reachable :
           name = ElementName("ARRAY", sep, i)
               => /\ Len(self.array) > Len(before.array) + i
                  /\ self.array[Len(before.array) + i + 1] = Num(name)
    /\ \A sep \in Seps, i \in Reachable, leaf \in Leaves :
           name = NestedElementName("SUB_STRUCTS", sep, i, leaf)
               => /\ Len(self.sub_structs) > Len(before.sub_structs) + i
                  /\ self.sub_structs[Len(before.sub_structs) + i + 1][leaf]
                         = Num(name)

\* C4: fail-fast.  When a variable the call looked up holds text that does
\* not parse, the call returns the error that names that variable; it is
\* the last variable looked up; the field it is for keeps the value it had;
\* and every field bound before it keeps the value bound (no rollback).  At
\* any depth: scalars, nested records, sequence elements.
C4_FailFast ==
    (Returned /\ \E i \in 1..Len(log) : BadText(log[i]))
        => /\ BadText(log[Len(log)])
           /\ \A i \in 1..(Len(log) - 1) : ~BadText(log[i])
           /\ result = ErrResult(ErrorMessage(log[Len(log)],
                                              "invalid digit found in string"))
           /\ FailingFieldKept(log[Len(log)])
           /\ \A i \in 1..(Len(log) - 1) : Good(log[i]) => BoundValueKept(log[i])

\* a call failed inside the nested record after it had bound the scalar
C4_Witness ==
    /\ Returned
    /\ prefix = "P_"
    /\ log[Len(log)] = "P_SUB__HOST"
    /\ BadText("P_SUB__HOST")
    /\ result.kind = "err"
    /\ Good("P_PORT")
    /\ self.port = Num("P_PORT")
    /\ before.port # self.port
    /\ self.sub.host = before.sub.host

----------------------------------------------------------------------------
(* C7 *)

\* some leaf of the record has a number under the child prefix v \o sep
FoundUnder(v, sep) == \E leaf \in Leaves : Good(NestedName(v, sep, leaf))

\* the names of the leaves under the child prefix v \o sep, in field order
LeafLookups(v, sep) ==
    << NestedName(v, sep, "port"), NestedName(v, sep, "host") >>

\* the value of a leaf once the colon name and then the underscore name of
\* it have been applied to `old`
BothApplied(v, leaf, old) ==
    IF Good(NestedName(v, "__", leaf)) THEN Num(NestedName(v, "__", leaf))
    ELSE IF Good(NestedName(v, ":", leaf)) THEN Num(NestedName(v, ":", leaf))
    ELSE old

\* C7: nested record, both separators.  The step of the nested fields, when
\* it does not fail, has bound the child record under P V ":" and then under
\* P V "__", the second whatever the first found; found_match has become
\* true iff it was or either attempt found a leaf; each leaf holds its
\* underscore value if it has one, else its colon value if it has one, else
\* what it held; no other field has changed.
C7_NestedBothSeparators ==
    [][ (pc = "nested" /\ result'.kind # "err")
            => /\ log' = log \o LeafLookups("SUB", ":") \o LeafLookups("SUB", "__")
               /\ found_match' =
                      (found_match \/ FoundUnder("SUB", ":") \/ FoundUnder("SUB", "__"))
               /\ self' = [self EXCEPT
                              !.sub = [leaf \in Leaves |->
                                          BothApplied("SUB", leaf, self.sub[leaf])]]
      ]_vars

\* the nested step is over: "port" was set to different numbers through both
\* names and holds the underscore one, "host" was set through the colon
\* name alone and holds it
C7_Witness ==
    /\ pc = "optional_nested"
    /\ prefix = "P_"
    /\ Good("P_SUB:PORT")
    /\ Good("P_SUB__PORT")
    /\ Num("P_SUB:PORT") # Num("P_SUB__PORT")
    /\ self.sub.port = Num("P_SUB__PORT")
    /\ found_match

----------------------------------------------------------------------------
(* C10 *)

\* C10 as stated: an optional nested record follows the nested separator
\* rules.  The step of the optional nested fields, when it does not fail,
\* has bound the inner record under both child prefixes, the underscore one
\* even when the colon one found something: every leaf set through either
\* name is applied, and the field ends present.
C10_OptionalNestedBothSeparators ==
    [][ (pc = "optional_nested" /\ result'.kind # "err"
             /\ (FoundUnder("OPT_SUB", ":") \/ FoundUnder("OPT_SUB", "__")))
            => /\ self'.opt_sub # None
               /\ \A leaf \in Leaves :
                      self'.opt_sub[1][leaf] =
                          BothApplied("OPT_SUB", leaf,
                              IF self.opt_sub = None
                              THEN DefaultOf("SubStruct")[leaf]
                              ELSE self.opt_sub[1][leaf])
      ]_vars

----------------------------------------------------------------------------
(* C8 *)

\* the first index at which neither name of an element of field v is set
RECURSIVE FirstGap(_, _)
FirstGap(v, i) ==
    IF \/ ElementName(v, ":", i) \in DOMAIN env
       \/ ElementName(v, "__", i) \in DOMAIN env
    THEN FirstGap(v, i + 1)
    ELSE i

\* C8 as stated: sequence gap truncation.  The step of the plain sequences,
\* on a sequence that was empty, when it does not fail, has appended exactly
\* k elements, k the first index at which neither the colon name nor the
\* underscore name is set; element j is the number of the colon name when
\* that is set and of the underscore name otherwise; found_match has become
\* true iff it was or k > 0.
C8_SequenceGap ==
    [][ (pc = "extendable" /\ result'.kind # "err" /\ self.array = <<>>)
            => LET k == FirstGap("ARRAY", 0)
               IN  /\ Len(self'.array) = k
                   /\ \A j \in 0..(k - 1) :
                          /\ ElementName("ARRAY", ":", j) \in DOMAIN env
                                 => /\ Good(ElementName("ARRAY", ":", j))
                                    /\ self'.array[j + 1] =
                                           Num(ElementName("ARRAY", ":", j))
                          /\ ElementName("ARRAY", ":", j) \notin DOMAIN env
                                 => /\ Good(ElementName("ARRAY", "__", j))
                                    /\ self'.array[j + 1] =
                                           Num(ElementName("ARRAY", "__", j))
                   /\ found_match' = (found_match \/ k > 0)
      ]_vars

\* a name of the sequence, at some index, is set to bytes that are not text
SomeElementUndecodable(v) ==
    \E sep \in Seps, i \in Indices : Undecodable(ElementName(v, sep, i))

\* C8, in the environments where every variable of the sequence that is set
\* is valid text: there the statement of C8 holds of the step.
C8_SequenceGapOfText ==
    [][ (pc = "extendable" /\ result'.kind # "err" /\ self.array = <<>>
             /\ ~SomeElementUndecodable("ARRAY"))
            => LET k == FirstGap("ARRAY", 0)
               IN  /\ Len(self'.array) = k
                   /\ \A j \in 0..(k - 1) :
                          self'.array[j + 1] =
                              IF ElementName("ARRAY", ":", j) \in DOMAIN env
                              THEN Num(ElementName("ARRAY", ":", j))
                              ELSE Num(ElementName("ARRAY", "__", j))
                   /\ found_match' = (found_match \/ k > 0)
      ]_vars

\* the step has stopped at a gap: index 0 is set, index 1 is not, index 2 is
C8_GapReached ==
    /\ pc = "nested_extendable"
    /\ prefix = "P_"
    /\ before.array = <<>>
    /\ Good("P_ARRAY__0")
    /\ "P_ARRAY:0" \notin DOMAIN env
    /\ FirstGap("ARRAY", 0) = 1
    /\ Good("P_ARRAY__2")
    /\ self.array = << Num("P_ARRAY__0") >>

----------------------------------------------------------------------------
(* C9 *)

\* binding a default element of field v at index i finds a leaf, under the
\* colon prefix or under the underscore prefix
ElementFound(v, i) ==
    \E sep \in Seps, leaf \in Leaves : Good(NestedElementName(v, sep, i, leaf))

\* the first index at which binding a default element finds nothing
RECURSIVE FirstMiss(_, _)
FirstMiss(v, i) == IF ElementFound(v, i) THEN FirstMiss(v, i + 1) ELSE i

\* C9: nested-sequence rollback.  After a call that returned Ok, a nested
\* sequence that was empty holds exactly k elements, k the first index at
\* which binding a default element finds nothing under both prefixes; every
\* element kept had a variable found for it and is not the default element:
\* the element appended for index k has been removed.
C9_NestedSequenceRollback ==
    (Returned /\ result.kind = "ok" /\ before.sub_structs = <<>>)
        => LET k == FirstMiss("SUB_STRUCTS", 0)
           IN  /\ Len(self.sub_structs) = k
               /\ \A j \in 0..(k - 1) :
                      /\ ElementFound("SUB_STRUCTS", j)
                      /\ self.sub_structs[j + 1] # DefaultOf("SubStruct")

\* a call returned Ok(true) with two elements kept, index 2 having none of
\* its variables set
C9_Witness ==
    /\ Returned
    /\ result = OkResult(TRUE)
    /\ before.sub_structs = <<>>
    /\ FirstMiss("SUB_STRUCTS", 0) = 2
    /\ Len(self.sub_structs) = 2

====
